---- MODULE Spec2Model ----
(***************************************************************************)
(* Model of src/app.py: the segmentation-and-alignment core of the video   *)
(* search engine (split_audio, transcribe_audio_chunk, milliseconds_to_hms,*)
(* search_word_in_transcript and the window loop of process).              *)
(*                                                                         *)
(* Representation.                                                         *)
(*  - A Python str is a sequence of code points (32 is " ", 58 is ":",     *)
(*    48..57 the digits, 65..90 upper case, 97..122 lower case).           *)
(*  - A Python dict is a sequence of [k, v] records in insertion order.    *)
(*  - A Python float that holds a time is the exact rational               *)
(*    [num, den] with den > 0.  For the token counts used here (fewer than *)
(*    45 tokens in a 15000 ms window, fewer than 12 in a 4000 ms window)   *)
(*    IEEE double arithmetic gives the same floors and the same <= 1000    *)
(*    comparisons as the exact rationals.                                  *)
(*  - The fuzzy cutoff (a float in (0, 1]) is held in hundredths.          *)
(***************************************************************************)
EXTENDS Integers, Sequences, FiniteSets, TLC

VARIABLES
    pc,                   \* position of the operation being run
    audio_len,            \* len(audio): duration of the decoded track, ms
    chunk_length_ms,      \* parameter of split_audio / search_word_in_transcript
    start,                \* split_audio: local start
    chunks,               \* split_audio: local chunks, each the slice bounds
    search_words,         \* process: search_words after line 164
    fuzzy_match,          \* process: fuzzy_match
    cutoff,               \* process: cutoff, in hundredths
    asr_results,          \* what the recognizer answered for each window so far
    chunk_transcriptions, \* process: chunk_transcriptions
    timestamps,           \* process: timestamps
    transcript,           \* search_word_in_transcript: parameter transcript
    chunk_start_time,     \* search_word_in_transcript: parameter chunk_start_time
    result,               \* value returned by the operation under test
    milliseconds          \* milliseconds_to_hms: parameter milliseconds

vars == <<pc, audio_len, chunk_length_ms, start, chunks, search_words,
          fuzzy_match, cutoff, asr_results, chunk_transcriptions, timestamps,
          transcript, chunk_start_time, result, milliseconds>>

----------------------------------------------------------------------------
(* Program constants *)

\* split_audio: overlap = 3000
overlap == 3000

\* process: the window length passed to split_audio and to the search
WINDOW_MS == 15000

\* search_word_in_transcript: the phrase gap  "<= 1000"
GAP_MS == 1000

----------------------------------------------------------------------------
(* Generic helpers: sequences, rationals, dicts *)

Range(s) == {s[k] : k \in 1..Len(s)}

\* F applied to the value of e, e being evaluated once
Let(e, F(_)) == CHOOSE y \in {F(x) : x \in {e}} : TRUE

Rat(n, d) == [num |-> n, den |-> d]

RatLE(a, b) == a.num * b.den <= b.num * a.den

RatLT(a, b) == a.num * b.den < b.num * a.den

RatEq(a, b) == a.num * b.den = b.num * a.den

\* floor of a non-negative rational
Floor(a) == a.num \div a.den

Abs(x) == IF x < 0 THEN -x ELSE x

\* abs(a - b) <= k
AbsDiffLE(a, b, k) == Abs(a.num * b.den - b.num * a.den) <= k * a.den * b.den

\* Python min(list) over a non-empty list of times
Min(s) == CHOOSE x \in Range(s) : \A y \in Range(s) : RatLE(x, y)

\* min(a, b)
Min2(a, b) == IF RatLT(b, a) THEN b ELSE a

EmptyDict == <<>>

DictKeys(d) == [k \in 1..Len(d) |-> d[k].k]

DictHas(d, key) == \E k \in 1..Len(d) : d[k].k = key

DictGet(d, key) == d[CHOOSE k \in 1..Len(d) : d[k].k = key].v

\* d[key] = val  (a new key goes last; an old key keeps its place)
DictSet(d, key, val) ==
    IF DictHas(d, key)
    THEN [k \in 1..Len(d) |-> IF d[k].k = key THEN [k |-> key, v |-> val] ELSE d[k]]
    ELSE Append(d, [k |-> key, v |-> val])

\* if key in d: d[key].append(x)  else: d[key] = [x]
DictAppend(d, key, x) ==
    IF DictHas(d, key) THEN DictSet(d, key, Append(DictGet(d, key), x))
    ELSE DictSet(d, key, <<x>>)

----------------------------------------------------------------------------
(* str.lower, str.split, str comparison *)

lower_char(c) == IF c \in 65..90 THEN c + 32 ELSE c

\* s.lower()
lower(s) == [k \in 1..Len(s) |-> lower_char(s[k])]

IsSpace(c) == c \in {9, 10, 11, 12, 13, 28, 29, 30, 31, 32}

\* s.split(): the maximal runs of non-whitespace, in order
split(s) ==
    LET starts == {k \in 1..Len(s) : ~IsSpace(s[k]) /\ (k = 1 \/ IsSpace(s[k - 1]))}
        last(k) == CHOOSE e \in k..Len(s) :
                       /\ \A m \in k..e : ~IsSpace(s[m])
                       /\ (e = Len(s) \/ IsSpace(s[e + 1]))
        nth(j) == CHOOSE k \in starts : Cardinality({m \in starts : m < k}) = j - 1
    IN  [j \in 1..Cardinality(starts) |-> SubSeq(s, nth(j), last(nth(j)))]

RECURSIVE StrLess(_, _)
\* a < b for str (code point order, a proper prefix is smaller)
StrLess(a, b) ==
    IF b = <<>> THEN FALSE
    ELSE IF a = <<>> THEN TRUE
    ELSE IF a[1] # b[1] THEN a[1] < b[1]
    ELSE StrLess(Tail(a), Tail(b))

----------------------------------------------------------------------------
(* milliseconds_to_hms *)

RECURSIVE Digits(_)
Digits(n) == IF n < 10 THEN <<48 + n>> ELSE Digits(n \div 10) \o <<48 + (n % 10)>>

\* f"{int(x):02}": decimal, zero-padded to at least two digits
Format02(n) == IF n < 10 THEN <<48>> \o Digits(n) ELSE Digits(n)

\* variant: the hours wrap at a day
milliseconds_to_hms_wrap(ms) ==
    LET seconds0 == ms.num \div (ms.den * 1000)
        minutes0 == seconds0 \div 60
        hours    == (minutes0 \div 60) % 24
        minutes  == minutes0 % 60
        seconds  == seconds0 % 60
    IN  Format02(hours) \o <<58>> \o Format02(minutes) \o <<58>> \o Format02(seconds)

milliseconds_to_hms(ms) ==
    LET seconds0 == ms.num \div (ms.den * 1000)
        minutes0 == seconds0 \div 60
        hours    == minutes0 \div 60
        minutes  == minutes0 % 60
        seconds  == seconds0 % 60
    IN  Format02(hours) \o <<58>> \o Format02(minutes) \o <<58>> \o Format02(seconds)

----------------------------------------------------------------------------
(* difflib.get_close_matches(word, possibilities, n=1, cutoff), as called  *)
(* on line 76.  Indices are 0-based and ranges half-open, as in difflib;   *)
(* a is the possibility (set_seq1), b is the token (set_seq2).             *)

RECURSIVE RunLen(_, _, _, _, _, _)
\* length of the common run a[i:i+k] = b[j:j+k] inside a[:ahi], b[:bhi]
RunLen(a, b, i, j, ahi, bhi) ==
    IF i < ahi /\ j < bhi /\ a[i + 1] = b[j + 1]
    THEN 1 + RunLen(a, b, i + 1, j + 1, ahi, bhi)
    ELSE 0

\* SequenceMatcher.find_longest_match: the longest block, of those the one
\* starting earliest in a, of those the one starting earliest in b
find_longest_match(a, b, alo, ahi, blo, bhi) ==
    Let({c \in {[i |-> i, j |-> j, size |-> RunLen(a, b, i, j, ahi, bhi)] :
                    i \in alo..(ahi - 1), j \in blo..(bhi - 1)} : c.size > 0},
        LAMBDA good :
            IF good = {} THEN [i |-> alo, j |-> blo, size |-> 0]
            ELSE CHOOSE c \in good :
                     \A o \in good :
                         \/ c.size > o.size
                         \/ c.size = o.size /\ c.i < o.i
                         \/ c.size = o.size /\ c.i = o.i /\ c.j <= o.j)

RECURSIVE matches(_, _, _, _, _, _)
\* sum of the sizes of SequenceMatcher.get_matching_blocks()
matches(a, b, alo, ahi, blo, bhi) ==
    Let(find_longest_match(a, b, alo, ahi, blo, bhi), LAMBDA m :
        IF m.size = 0 THEN 0
        ELSE m.size
             + (IF alo < m.i /\ blo < m.j
                THEN matches(a, b, alo, m.i, blo, m.j) ELSE 0)
             + (IF m.i + m.size < ahi /\ m.j + m.size < bhi
                THEN matches(a, b, m.i + m.size, ahi, m.j + m.size, bhi) ELSE 0))

\* _calculate_ratio(matches, length): 2.0 * matches / length, or 1.0
calculate_ratio(m, length) == IF length > 0 THEN Rat(2 * m, length) ELSE Rat(1, 1)

\* SequenceMatcher.ratio()
ratio(a, b) == calculate_ratio(matches(a, b, 0, Len(a), 0, Len(b)), Len(a) + Len(b))

Count(s, c) == Cardinality({k \in 1..Len(s) : s[k] = c})

SumOver(S, f(_)) ==
    LET RECURSIVE go(_)
        go(T) == IF T = {} THEN 0
                 ELSE LET x == CHOOSE y \in T : TRUE IN f(x) + go(T \ {x})
    IN  go(S)

\* SequenceMatcher.quick_ratio(): multiset intersection of the elements
quick_ratio(a, b) ==
    LET inter(c) == IF Count(a, c) < Count(b, c) THEN Count(a, c) ELSE Count(b, c)
    IN  calculate_ratio(SumOver(Range(a), inter), Len(a) + Len(b))

\* SequenceMatcher.real_quick_ratio(): from the lengths alone
real_quick_ratio(a, b) ==
    calculate_ratio(IF Len(a) < Len(b) THEN Len(a) ELSE Len(b), Len(a) + Len(b))

\* r >= cutoff, the cutoff being in hundredths
AtLeastCutoff(r, cut) == r.num * 100 >= cut * r.den

\* (score, x) tuple order used by heapq.nlargest
ScoredLess(p, q) ==
    \/ RatLT(p.score, q.score)
    \/ RatEq(p.score, q.score) /\ StrLess(p.x, q.x)

\* get_close_matches(word, possibilities, n=1, cutoff): <<>> or <<the best>>
get_close_matches(word, possibilities, cut) ==
    Let({p \in {[score |-> ratio(possibilities[k], word), x |-> possibilities[k]] :
                    k \in {k \in 1..Len(possibilities) :
                             /\ AtLeastCutoff(real_quick_ratio(possibilities[k], word), cut)
                             /\ AtLeastCutoff(quick_ratio(possibilities[k], word), cut)}} :
             AtLeastCutoff(p.score, cut)},
        LAMBDA res :
            IF res = {} THEN <<>>
            ELSE <<(CHOOSE p \in res : \A q \in res : ~ScoredLess(p, q)).x>>)

----------------------------------------------------------------------------
(* search_word_in_transcript *)

\* chunk_start_time + (i / len(words)) * chunk_length_ms, i 0-based
word_time_at(i, n, cst, clm) == Rat(cst * n + i * clm, n)

\* variant: a fuzzy hit is recorded under the token itself
match_key_raw(word, sw, fm, cut) ==
    IF word \in Range(sw) THEN <<word>>
    ELSE IF fm /\ get_close_matches(word, sw, cut) # <<>> THEN <<word>>
    ELSE <<>>

\* the key a token is recorded under: <<word>> on an exact match, else the
\* close match when fuzzy matching is on, else <<>>
match_key(word, sw, fm, cut) ==
    IF word \in Range(sw) THEN <<word>>
    ELSE IF fm THEN get_close_matches(word, sw, cut)
    ELSE <<>>

RECURSIVE match_loop(_, _, _, _, _, _, _, _)
\* lines 63-88: for i, word in enumerate(words); acc holds the two dicts
match_loop(words, sw, cst, clm, fm, cut, i, acc) ==
    IF i >= Len(words) THEN acc
    ELSE LET word_time == word_time_at(i, Len(words), cst, clm)
             word_time_hms == milliseconds_to_hms(word_time)
         IN  Let(Let(match_key(words[i + 1], sw, fm, cut), LAMBDA key :
                     IF key = <<>> THEN acc
                     ELSE [timestamps |-> DictAppend(acc.timestamps, key[1], word_time_hms),
                           word_times |-> DictAppend(acc.word_times, key[1], word_time)]),
                 LAMBDA acc1 : match_loop(words, sw, cst, clm, fm, cut, i + 1, acc1))

RECURSIVE InsertSorted(_, _, _)
\* stable insertion of key w by min(word_times[w])
InsertSorted(sorted, w, wt) ==
    IF sorted = <<>> THEN <<w>>
    ELSE IF RatLT(Min(DictGet(wt, w)), Min(DictGet(wt, sorted[Len(sorted)])))
         THEN Append(InsertSorted(SubSeq(sorted, 1, Len(sorted) - 1), w, wt),
                     sorted[Len(sorted)])
         ELSE Append(sorted, w)

RECURSIVE SortFrom(_, _, _)
SortFrom(keys, k, wt) ==
    IF k = 0 THEN <<>>
    ELSE Let(SortFrom(keys, k - 1, wt), LAMBDA sorted : InsertSorted(sorted, keys[k], wt))

\* line 92: sorted(word_times.keys(), key=min of the word's times)
sorted_by_min(wt) == SortFrom(DictKeys(wt), Len(wt), wt)

\* variant: the gap is twice as wide
within_gap_wide(a, b) == AbsDiffLE(a, b, 2 * GAP_MS)

\* variant: a gap of exactly 1000 ms no longer joins
within_gap_strict(a, b) == ~RatEq(a, b) /\ AbsDiffLE(a, b, GAP_MS - 1)

\* line 106: abs(min(next_times) - min(current_times)) <= 1000
within_gap(a, b) == AbsDiffLE(a, b, GAP_MS)

RECURSIVE inner_loop(_, _, _, _, _, _)
\* lines 102-112: extend the phrase while the next word is within the gap
\* of the word accepted last
inner_loop(sorted_words, wt, j, current_times, concatenated, min_time) ==
    IF j < Len(sorted_words)
       /\ within_gap(Min(DictGet(wt, sorted_words[j + 1])), Min(current_times))
    THEN LET next_word == sorted_words[j + 1]
             next_times == DictGet(wt, next_word)
         IN  Let([c |-> concatenated \o <<32>> \o next_word,
                  m |-> Min2(min_time, Min(next_times))],
                 LAMBDA n : inner_loop(sorted_words, wt, j + 1, next_times, n.c, n.m))
    ELSE [j |-> j, concatenated |-> concatenated, min_time |-> min_time]

RECURSIVE outer_loop(_, _, _, _, _)
\* lines 94-118: while i < len(sorted_words) - 1
outer_loop(sorted_words, wt, i, concatenated_words, concatenated_times) ==
    IF i < Len(sorted_words) - 1
    THEN LET current_word == sorted_words[i + 1]
             current_times == DictGet(wt, current_word)
         IN  Let(Let(inner_loop(sorted_words, wt, i + 1, current_times,
                                current_word, Min(current_times)),
                     LAMBDA r :
                         IF r.concatenated # current_word
                         THEN [j |-> r.j,
                               cw |-> Append(concatenated_words, r.concatenated),
                               ct |-> Append(concatenated_times,
                                             milliseconds_to_hms(r.min_time))]
                         ELSE [j |-> r.j, cw |-> concatenated_words,
                               ct |-> concatenated_times]),
                 LAMBDA n : outer_loop(sorted_words, wt, n.j, n.cw, n.ct))
    ELSE [concatenated_words |-> concatenated_words,
          concatenated_times |-> concatenated_times]

\* lines 58-88: the two dicts after the token loop
find_occurrences(text, sw, cst, clm, fm, cut) ==
    Let([words |-> split(lower(text)),
         search_words |-> [k \in 1..Len(sw) |-> lower(sw[k])]],
        LAMBDA l : match_loop(l.words, l.search_words, cst, clm, fm, cut, 0,
                              [timestamps |-> EmptyDict, word_times |-> EmptyDict]))

search_word_in_transcript(text, sw, cst, clm, fm, cut) ==
    Let(find_occurrences(text, sw, cst, clm, fm, cut), LAMBDA occ :
        Let(Let(sorted_by_min(occ.word_times), LAMBDA sorted_words :
                outer_loop(sorted_words, occ.word_times, 0, <<>>, <<>>)),
            LAMBDA ph :
                [timestamps |-> occ.timestamps,
                 concatenated_words |-> ph.concatenated_words,
                 concatenated_times |-> ph.concatenated_times]))

----------------------------------------------------------------------------
(* split_audio *)

\* variant: the windows are laid end to end
next_start_no_overlap(st, clm) == st + clm

\* line 33: start += chunk_length_ms - overlap
next_start(st, clm) == st + clm - overlap

\* lines 31-32: the slice audio[start:end] taken for one window
chunk_at(st, clm) == [start |-> st, end |-> st + clm]

----------------------------------------------------------------------------
(* transcribe_audio_chunk and the body of the window loop of process *)

\* variant: RequestError is not caught
transcribe_audio_chunk_uncaught(asr) ==
    IF asr.kind = "text" THEN [raised |-> FALSE, text |-> asr.text]
    ELSE IF asr.kind = "UnknownValueError" THEN [raised |-> FALSE, text |-> <<>>]
    ELSE [raised |-> TRUE, text |-> <<>>]

\* lines 41-47: the recognizer's text, or "" when it raises UnknownValueError
\* or RequestError; raised tells whether an exception leaves the function
transcribe_audio_chunk(asr) ==
    IF asr.kind = "text" THEN [raised |-> FALSE, text |-> asr.text]
    ELSE IF asr.kind = "UnknownValueError" THEN [raised |-> FALSE, text |-> <<>>]
    ELSE IF asr.kind = "RequestError" THEN [raised |-> FALSE, text |-> <<>>]
    ELSE [raised |-> TRUE, text |-> <<>>]

\* variant: the overlap is forgotten
chunk_start_time_no_overlap(i) == i * 15000

\* line 169: chunk_start_time = i * (15000 - 3000), i 0-based
chunk_start_time_of(i) == i * (15000 - 3000)

RECURSIVE merge_words_overwrite(_, _, _)
\* variant: the list of a word seen before is replaced, not extended
merge_words_overwrite(ts, word_timestamps, k) ==
    IF k > Len(word_timestamps) THEN ts
    ELSE Let(DictSet(ts, word_timestamps[k].k, word_timestamps[k].v),
             LAMBDA ts1 : merge_words_overwrite(ts1, word_timestamps, k + 1))

RECURSIVE merge_words(_, _, _)
\* lines 177-181: extend the lists of the words of this window
merge_words(ts, word_timestamps, k) ==
    IF k > Len(word_timestamps) THEN ts
    ELSE LET word == word_timestamps[k].k
             times == word_timestamps[k].v
         IN  Let(IF DictHas(ts, word)
                 THEN DictSet(ts, word, DictGet(ts, word) \o times)
                 ELSE DictSet(ts, word, times),
                 LAMBDA ts1 : merge_words(ts1, word_timestamps, k + 1))

RECURSIVE merge_phrases(_, _, _, _)
\* lines 183-185: a phrase is entered once, with the time of its first sighting
merge_phrases(ts, concatenated_words, concatenated_times, k) ==
    IF k > Len(concatenated_words) \/ k > Len(concatenated_times) THEN ts
    ELSE Let(IF ~DictHas(ts, concatenated_words[k])
             THEN DictSet(ts, concatenated_words[k], <<concatenated_times[k]>>)
             ELSE ts,
             LAMBDA ts1 : merge_phrases(ts1, concatenated_words, concatenated_times, k + 1))

RECURSIVE JoinSeq(_)
JoinSeq(ws) ==
    IF Len(ws) = 1 THEN ws[1] ELSE ws[1] \o <<32>> \o JoinSeq(Tail(ws))

\* variant: the phrase is assembled from the words accumulated over all the
\* windows so far instead of this window's
process_window_accumulated(ts, i, text, sw, fm, cut) ==
    Let(search_word_in_transcript(text, sw, chunk_start_time_of(i), 15000, fm, cut),
        LAMBDA r :
            Let(merge_words(ts, r.timestamps, 1), LAMBDA merged :
                Let(SelectSeq(DictKeys(merged), LAMBDA w : 32 \notin Range(w)),
                    LAMBDA singles :
                        IF Len(singles) >= 2
                        THEN merge_phrases(merged, <<JoinSeq(singles)>>,
                                           <<merged[1].v[1]>>, 1)
                        ELSE merged)))

\* lines 169-185 after the transcription: the new value of timestamps
process_window(ts, i, text, sw, fm, cut) ==
    Let(search_word_in_transcript(text, sw, chunk_start_time_of(i), 15000, fm, cut),
        LAMBDA r : merge_phrases(merge_words(ts, r.timestamps, 1),
                                 r.concatenated_words, r.concatenated_times, 1))

----------------------------------------------------------------------------
(* Bounds and the inputs drawn from them *)

\* most windows split_audio is asked to cut in SpecSplit
MaxChunks == 4

\* longest track of SpecSplit, ms
MaxDuration == 48000

\* longest track of the pipeline, ms
MaxAudioLen == 24001

\* most tokens of a generated transcript before padding
MaxLen == 3

\* tokens of a padded transcript
MaxTokens == 16

\* most hours of a time given to milliseconds_to_hms
MaxHours == 26

None == "none"

W_the  == <<116, 104, 101>>
W_cat  == <<99, 97, 116>>
W_Cat  == <<67, 97, 116>>
W_cats == <<99, 97, 116, 115>>
W_cut  == <<99, 117, 116>>
W_cot  == <<99, 111, 116>>
W_dog  == <<100, 111, 103>>
W_Dog  == <<68, 111, 103>>

RECURSIVE Join(_)
\* " ".join(tokens)
Join(tokens) ==
    IF tokens = <<>> THEN <<>>
    ELSE IF Len(tokens) = 1 THEN tokens[1]
    ELSE tokens[1] \o <<32>> \o Join(Tail(tokens))

\* tokens followed by fillers up to n tokens
Pad(tokens, n) ==
    [k \in 1..(IF Len(tokens) > n THEN Len(tokens) ELSE n) |->
        IF k <= Len(tokens) THEN tokens[k] ELSE W_the]

\* the tokens of a short run; the filler "the" comes with the padding
Vocab == {W_cat, W_Dog, W_cats, W_cut}

ShortTokenSeqs == UNION {[1..n -> Vocab] : n \in 0..MaxLen}

\* the token count at which neighbouring tokens of a window are one gap apart
GapTokens == WINDOW_MS \div GAP_MS

\* a short run of tokens: alone, or followed by fillers and a last "cot", up
\* to GapTokens tokens or up to MaxTokens tokens
SearchTranscripts ==
    {Join(t) : t \in ShortTokenSeqs}
    \cup {Join(Pad(t, n - 1) \o <<W_cot>>) : t \in ShortTokenSeqs, n \in {GapTokens, MaxTokens}}

SearchWordLists == {<<W_cat, W_dog>>, <<W_Cat, W_cot, W_dog>>}

\* <<fuzzy_match, cutoff in hundredths>>; 0.8 is the form's default
FormSettings == {<<FALSE, 80>>, <<TRUE, 60>>, <<TRUE, 80>>}

\* <<chunk_start_time, chunk_length_ms>>
SearchWindows == {<<0, 15000>>, <<12000, 15000>>, <<0, 4000>>}

\* what the recognizer may answer for a window in the pipeline
PipelineTranscripts ==
    { <<>>,
      W_cat,
      Join(<<W_the, W_Cat, W_cats>>),
      Join(Pad(<<W_cat, W_Dog, W_cut>>, MaxTokens)),
      Join(Pad(Pad(<<>>, 13) \o <<W_Dog>>, MaxTokens)) }

ASRResults ==
    {[kind |-> "text", text |-> t] : t \in PipelineTranscripts}
    \cup {[kind |-> "UnknownValueError", text |-> <<>>],
          [kind |-> "RequestError", text |-> <<>>]}

AudioLens == {d \in 1..MaxAudioLen : d % (WINDOW_MS - overlap) \in {0, 1}}

SplitDurations == {d \in 1..MaxDuration : d % 1000 \in {0, 1, 999} \/ d <= MaxChunks}

SplitLengths == {-1000, 0, 1000, 3000, 3001, 4000, 15000}

HmsInputs ==
    {Rat((((h * 60 + m) * 60 + sec) * 1000 + r) * d + (d - 1), d) :
        h \in (0..MaxHours) \cup {100}, m \in {0, 1, 59}, sec \in {0, 1, 59},
        r \in {0, 1, 999}, d \in {1, 3}}

----------------------------------------------------------------------------
(* The operations *)

\* split_audio, lines 30-33: one turn of the while loop
split_step ==
    /\ pc = "split"
    /\ start < audio_len
    /\ Len(chunks) < MaxChunks
    /\ chunks' = Append(chunks, chunk_at(start, chunk_length_ms))
    /\ start' = next_start(start, chunk_length_ms)
    /\ UNCHANGED <<pc, audio_len, chunk_length_ms, search_words, fuzzy_match, cutoff,
                   asr_results, chunk_transcriptions, timestamps, transcript,
                   chunk_start_time, result, milliseconds>>

\* split_audio, line 34: return chunks
split_return ==
    /\ pc = "split"
    /\ ~(start < audio_len)
    /\ pc' = "split_returned"
    /\ result' = chunks
    /\ UNCHANGED <<audio_len, chunk_length_ms, start, chunks, search_words, fuzzy_match,
                   cutoff, asr_results, chunk_transcriptions, timestamps, transcript,
                   chunk_start_time, milliseconds>>

\* process, lines 160-167: chunks = split_audio(...) has returned; the
\* accumulators are emptied and the window loop is entered
process_enter_loop ==
    /\ pc = "split_returned"
    /\ pc' = "loop"
    /\ timestamps' = EmptyDict
    /\ chunk_transcriptions' = <<>>
    /\ UNCHANGED <<audio_len, chunk_length_ms, start, chunks, search_words, fuzzy_match,
                   cutoff, asr_results, transcript, chunk_start_time, result,
                   milliseconds>>

\* process, lines 168-185: one window: transcribe, search, accumulate
process_chunk ==
    /\ pc = "loop"
    /\ Len(chunk_transcriptions) < Len(chunks)
    /\ \E asr \in ASRResults :
         LET i == Len(chunk_transcriptions)
             tr == transcribe_audio_chunk(asr)
         IN  /\ asr_results' = Append(asr_results, asr)
             /\ IF tr.raised
                THEN /\ pc' = "aborted"
                     /\ UNCHANGED <<chunk_transcriptions, timestamps>>
                ELSE /\ pc' = pc
                     /\ chunk_transcriptions' =
                            Append(chunk_transcriptions,
                                   [chunk |-> i + 1, transcription |-> tr.text])
                     /\ timestamps' = process_window(timestamps, i, tr.text, search_words,
                                                     fuzzy_match, cutoff)
    /\ UNCHANGED <<audio_len, chunk_length_ms, start, chunks, search_words, fuzzy_match,
                   cutoff, transcript, chunk_start_time, result, milliseconds>>

\* process, lines 188-193: the loop is over, the results are rendered
process_return ==
    /\ pc = "loop"
    /\ Len(chunk_transcriptions) = Len(chunks)
    /\ pc' = "done"
    /\ result' = [transcriptions |-> chunk_transcriptions, timestamps |-> timestamps,
                  search_words |-> search_words]
    /\ UNCHANGED <<audio_len, chunk_length_ms, start, chunks, search_words, fuzzy_match,
                   cutoff, asr_results, chunk_transcriptions, timestamps, transcript,
                   chunk_start_time, milliseconds>>

\* one call of search_word_in_transcript
search_call ==
    /\ pc = "search"
    /\ pc' = "search_returned"
    /\ result' = search_word_in_transcript(transcript, search_words, chunk_start_time,
                                           chunk_length_ms, fuzzy_match, cutoff)
    /\ UNCHANGED <<audio_len, chunk_length_ms, start, chunks, search_words, fuzzy_match,
                   cutoff, asr_results, chunk_transcriptions, timestamps, transcript,
                   chunk_start_time, milliseconds>>

\* one call of milliseconds_to_hms
hms_call ==
    /\ pc = "hms"
    /\ pc' = "hms_returned"
    /\ result' = milliseconds_to_hms(milliseconds)
    /\ UNCHANGED <<audio_len, chunk_length_ms, start, chunks, search_words, fuzzy_match,
                   cutoff, asr_results, chunk_transcriptions, timestamps, transcript,
                   chunk_start_time, milliseconds>>

----------------------------------------------------------------------------
(* Specifications *)

\* process, from the call of split_audio(audio_path, 15000) on line 160
Init ==
    /\ pc = "split"
    /\ audio_len \in AudioLens
    /\ chunk_length_ms = WINDOW_MS
    /\ start = 0 /\ chunks = <<>>
    /\ search_words \in SearchWordLists
    /\ \E st \in FormSettings : fuzzy_match = st[1] /\ cutoff = st[2]
    /\ asr_results = <<>> /\ chunk_transcriptions = <<>> /\ timestamps = EmptyDict
    /\ transcript = <<>> /\ chunk_start_time = 0 /\ result = None
    /\ milliseconds = Rat(0, 1)

Next ==
    \/ split_step
    \/ split_return
    \/ process_enter_loop
    \/ process_chunk
    \/ process_return

Spec == Init /\ [][Next]_vars

\* split_audio alone, for any window length; a length above the overlap is
\* paired with a track it cuts into at most MaxChunks windows
InitSplit ==
    /\ pc = "split"
    /\ audio_len \in SplitDurations
    /\ chunk_length_ms \in SplitLengths
    /\ chunk_length_ms > overlap => MaxChunks * (chunk_length_ms - overlap) >= audio_len
    /\ start = 0 /\ chunks = <<>>
    /\ search_words = <<>> /\ fuzzy_match = FALSE /\ cutoff = 0
    /\ asr_results = <<>> /\ chunk_transcriptions = <<>> /\ timestamps = EmptyDict
    /\ transcript = <<>> /\ chunk_start_time = 0 /\ result = None
    /\ milliseconds = Rat(0, 1)

NextSplit ==
    \/ split_step
    \/ split_return

SpecSplit == InitSplit /\ [][NextSplit]_vars

\* search_word_in_transcript alone; a 4000 ms window is given fewer than 12
\* tokens, where the doubles agree with the rationals
InitSearch ==
    /\ pc = "search"
    /\ transcript \in SearchTranscripts
    /\ search_words \in SearchWordLists
    /\ \E st \in FormSettings : fuzzy_match = st[1] /\ cutoff = st[2]
    /\ \E w \in SearchWindows : chunk_start_time = w[1] /\ chunk_length_ms = w[2]
    /\ chunk_length_ms < WINDOW_MS => Len(split(transcript)) < 12
    /\ audio_len = 0 /\ start = 0 /\ chunks = <<>>
    /\ asr_results = <<>> /\ chunk_transcriptions = <<>> /\ timestamps = EmptyDict
    /\ result = None
    /\ milliseconds = Rat(0, 1)

NextSearch == search_call

SpecSearch == InitSearch /\ [][NextSearch]_vars

\* milliseconds_to_hms alone
InitHms ==
    /\ pc = "hms"
    /\ milliseconds \in HmsInputs
    /\ audio_len = 0 /\ chunk_length_ms = 0 /\ start = 0 /\ chunks = <<>>
    /\ search_words = <<>> /\ fuzzy_match = FALSE /\ cutoff = 0
    /\ asr_results = <<>> /\ chunk_transcriptions = <<>> /\ timestamps = EmptyDict
    /\ transcript = <<>> /\ chunk_start_time = 0 /\ result = None

NextHms == hms_call

SpecHms == InitHms /\ [][NextHms]_vars

----------------------------------------------------------------------------
(* Properties of split_audio (SpecSplit) *)

\* C1: for a window length above the overlap, split_audio returns a finite,
\* non-empty list of windows starting at 0, step, 2*step, ... (step = length
\* - overlap) for exactly the starts below the track length; neighbours
\* overlap by exactly the overlap, and the windows leave no gap in
\* [0, track length): the first starts at 0, each starts no later than its
\* predecessor ends, and the last ends at or after the end of the track.
\* For 40000 ms and 15000 ms windows the starts are 0, 12000, 24000, 36000.
C1_Segmentation ==
    chunk_length_ms > overlap =>
        LET step == chunk_length_ms - overlap
        IN  /\ pc = "split" =>
                 /\ start = Len(chunks) * step
                 /\ Len(chunks) > 0 => (Len(chunks) - 1) * step < audio_len
                 /\ start < audio_len => Len(chunks) < MaxChunks
            /\ pc = "split_returned" =>
                 LET n == Len(result)
                 IN  /\ n >= 1
                     /\ \A k \in 1..n :
                            /\ result[k].start = (k - 1) * step
                            /\ result[k].end = result[k].start + chunk_length_ms
                     /\ (n - 1) * step < audio_len
                     /\ n * step >= audio_len
                     /\ \A k \in 1..(n - 1) : result[k].end - result[k + 1].start = 3000
                     /\ result[1].start = 0
                     /\ \A k \in 1..(n - 1) : result[k + 1].start <= result[k].end
                     /\ result[n].end >= audio_len
                     /\ (audio_len = 40000 /\ chunk_length_ms = 15000) =>
                            [k \in 1..n |-> result[k].start] = <<0, 12000, 24000, 36000>>

\* C1 witness: the 40000 ms track has been cut into its four windows
C1_Witness ==
    /\ pc = "split_returned"
    /\ audio_len = 40000
    /\ chunk_length_ms = 15000
    /\ Len(result) = 4

\* C2: with a window length at or below the overlap (or not positive)
\* split_audio produces no window and does not return a window list
C2_FailsFast ==
    chunk_length_ms <= overlap => (chunks = <<>> /\ pc # "split_returned")

----------------------------------------------------------------------------
(* Properties of milliseconds_to_hms (SpecHms) *)

IsDigits(s) == Len(s) >= 1 /\ \A k \in 1..Len(s) : s[k] \in 48..57

RECURSIVE ParseNat(_)
ParseNat(s) ==
    IF s = <<>> THEN 0
    ELSE ParseNat(SubSeq(s, 1, Len(s) - 1)) * 10 + (s[Len(s)] - 48)

\* the fields of a string around its colons, left to right
Fields(s) ==
    LET cols == {k \in 1..Len(s) : s[k] = 58}
        bounds == [j \in 0..(Cardinality(cols) + 1) |->
                     IF j = 0 THEN 0
                     ELSE IF j = Cardinality(cols) + 1 THEN Len(s) + 1
                     ELSE CHOOSE k \in cols : Cardinality({m \in cols : m < k}) = j - 1]
    IN  [j \in 1..(Cardinality(cols) + 1) |-> SubSeq(s, bounds[j - 1] + 1, bounds[j] - 1)]

\* whole seconds of a display time HH:MM:SS
HmsSeconds(s) ==
    ParseNat(Fields(s)[1]) * 3600 + ParseNat(Fields(s)[2]) * 60 + ParseNat(Fields(s)[3])

WellFormedHms(s) ==
    /\ Len(Fields(s)) = 3
    /\ \A j \in 1..3 : IsDigits(Fields(s)[j])
    /\ Len(Fields(s)[1]) >= 2 /\ Len(Fields(s)[2]) = 2 /\ Len(Fields(s)[3]) = 2
    /\ ParseNat(Fields(s)[2]) \in 0..59
    /\ ParseNat(Fields(s)[3]) \in 0..59

\* C10: for every non-negative time the display string reads HH:MM:SS with
\* MM and SS in 0..59 and HH*3600 + MM*60 + SS equal to the whole seconds of
\* the time (truncated); the hours do not wrap at 24: 90000000 ms reads 25.
C10_HmsDecomposition ==
    pc = "hms_returned" =>
        /\ WellFormedHms(result)
        /\ HmsSeconds(result) = Floor(milliseconds) \div 1000
        /\ milliseconds = Rat(90000000, 1) => ParseNat(Fields(result)[1]) = 25

\* C10 witness: 90000000 ms has been converted, to 25:00:00
C10_Witness ==
    /\ pc = "hms_returned"
    /\ milliseconds = Rat(90000000, 1)
    /\ result = <<50, 53, 58, 48, 48, 58, 48, 48>>

----------------------------------------------------------------------------
(* Properties of search_word_in_transcript (SpecSearch) *)

\* the tokens and the search terms of the call, lower-cased
Tokens == split(lower(transcript))

Terms == {lower(search_words[k]) : k \in 1..Len(search_words)}

\* the word_times dict of the call
WordTimes ==
    find_occurrences(transcript, search_words, chunk_start_time, chunk_length_ms,
                     fuzzy_match, cutoff).word_times

\* the occurrences held by a word_times dict: <<place of the key, place in its list>>
Occs(wt, n) == {o \in (1..Len(wt)) \X (1..n) : o[2] <= Len(wt[o[1]].v)}

\* the token index a time stands for in a window of n tokens starting at
\* cst and clm long; -1 when it stands for none
IndexOfTime(t, n, cst, clm) ==
    IF t.den = n /\ (t.num - cst * n) % clm = 0 THEN (t.num - cst * n) \div clm ELSE -1

\* sim[tok][term]: the similarity of every token to every term
Similarities(toks, terms) ==
    [tok \in Range(toks) |-> [term \in terms |-> ratio(term, tok)]]

IsMatching(tok, terms, sim) ==
    tok \in terms \/ (fuzzy_match /\ \E t \in terms : AtLeastCutoff(sim[tok][t], cutoff))

\* key is where the decision order of C8 puts tok
KeyDecided(key, tok, terms, sim) ==
    IF tok \in terms THEN key = tok
    ELSE /\ fuzzy_match
         /\ key \in terms
         /\ AtLeastCutoff(sim[tok][key], cutoff)
         /\ \A t \in terms : RatLE(sim[tok][t], sim[tok][key])

C8_Holds(wt, toks, terms, sim, res) ==
    LET n == Len(toks)
        occs == Occs(wt, n)
        idx == [o \in occs |->
                   IndexOfTime(wt[o[1]].v[o[2]], n, chunk_start_time, chunk_length_ms)]
        matching == {i \in 0..(n - 1) : IsMatching(toks[i + 1], terms, sim)}
    IN  /\ \A o \in occs :
               /\ idx[o] \in 0..(n - 1)
               /\ KeyDecided(wt[o[1]].k, toks[idx[o] + 1], terms, sim)
        /\ \A o1, o2 \in occs : idx[o1] = idx[o2] => o1 = o2
        /\ matching = {idx[o] : o \in occs}
        /\ Cardinality(occs) = Cardinality(matching)
        /\ DictKeys(res.timestamps) = DictKeys(wt)
        /\ \A k \in 1..Len(wt) :
               res.timestamps[k].v =
                   [j \in 1..Len(wt[k].v) |-> milliseconds_to_hms(wt[k].v[j])]

\* C8: every token yields at most one occurrence: under the term it equals
\* (lower-cased) if there is one; else, with fuzzy matching on, under a
\* best-matching search term whose similarity reaches the cutoff, never
\* under the token itself; else none.  Every matching token has its own
\* occurrence, so there are as many occurrences as matching tokens, and
\* the returned map holds one display time per occurrence.
C8_OneOccurrencePerMatchingToken ==
    pc = "search_returned" =>
        Let([wt |-> WordTimes, toks |-> Tokens, sim |-> Similarities(Tokens, Terms)],
            LAMBDA c : C8_Holds(c.wt, c.toks, Terms, c.sim, result))

\* C8 witness: "cat" and "cats" both occur, fuzzy matching is on, and both
\* are recorded under cat, none under cats
C8_Witness ==
    /\ pc = "search_returned"
    /\ fuzzy_match
    /\ {W_cat, W_cats} \subseteq Range(Tokens)
    /\ DictHas(result.timestamps, W_cat)
    /\ Len(DictGet(result.timestamps, W_cat)) >= 2
    /\ ~DictHas(result.timestamps, W_cats)

\* earliest time of a word in a word_times dict
Earliest(wt, w) == Min(DictGet(wt, w))

\* the words of the emitted phrases, phrase by phrase
PhraseWords(res) ==
    [k \in 1..Len(res.concatenated_words) |-> split(res.concatenated_words[k])]

\* the earliest times of the words of the emitted phrases
PhraseTimes(wt0, res) ==
    Let([wt |-> wt0, ws |-> PhraseWords(res)], LAMBDA c :
        [k \in 1..Len(c.ws) |->
            [a \in 1..Len(c.ws[k]) |-> Earliest(c.wt, c.ws[k][a])]])

\* C5 as stated: no phrase holds two words whose earliest times are more
\* than 1000 ms apart
C5_NoWordsFartherThanGap ==
    pc = "search_returned" =>
        Let(PhraseTimes(WordTimes, result), LAMBDA pt :
            \A k \in 1..Len(pt) : \A a, b \in 1..Len(pt[k]) :
                AbsDiffLE(pt[k][a], pt[k][b], 1000))

\* C5 amended: no phrase holds two neighbouring words whose earliest times
\* are more than 1000 ms apart (words farther apart do share a phrase when
\* the words between them link them)
C5_NeighboursWithinGap ==
    pc = "search_returned" =>
        Let(PhraseTimes(WordTimes, result), LAMBDA pt :
            \A k \in 1..Len(pt) : \A a \in 1..(Len(pt[k]) - 1) :
                AbsDiffLE(pt[k][a], pt[k][a + 1], 1000))

\* C5 witness: a phrase of three words, the first and the last more than
\* 1000 ms apart
C5_Witness ==
    /\ pc = "search_returned"
    /\ Let(PhraseTimes(WordTimes, result), LAMBDA pt :
           \E k \in 1..Len(pt) :
               Len(pt[k]) = 3 /\ ~AbsDiffLE(pt[k][1], pt[k][3], 1000))

C6_Holds(wt, res, words) ==
    LET keys == Range(DictKeys(wt))
        early == [w \in keys |-> Earliest(wt, w)]
    IN  /\ \A u, v \in keys :
               (u # v /\ AbsDiffLE(early[u], early[v], 1000)) =>
                   \E k \in 1..Len(words) : {u, v} \subseteq Range(words[k])
        /\ Len(res.concatenated_times) = Len(words)
        /\ \A k \in 1..Len(words) :
               /\ Len(words[k]) >= 2
               /\ Range(words[k]) \subseteq keys
               /\ \A a, b \in 1..Len(words[k]) : a # b => words[k][a] # words[k][b]
               /\ \A a \in 1..(Len(words[k]) - 1) :
                      RatLE(early[words[k][a]], early[words[k][a + 1]])
               /\ res.concatenated_times[k] = milliseconds_to_hms(early[words[k][1]])
        /\ \A u \in keys :
               (\A v \in keys \ {u} : ~AbsDiffLE(early[u], early[v], 1000)) =>
                   /\ \A k \in 1..Len(words) : u \notin Range(words[k])
                   /\ DictHas(res.timestamps, u)

\* C6: two distinct words whose earliest times are at most 1000 ms apart
\* are in one emitted phrase; a phrase has at least two distinct words, all
\* found in the call, in ascending order of earliest time, and is dated by
\* its earliest word; a word with no other word within 1000 ms is in no
\* phrase and keeps its entry in the returned map.
C6_Clustering ==
    pc = "search_returned" =>
        Let([wt |-> WordTimes, words |-> PhraseWords(result)],
            LAMBDA c : C6_Holds(c.wt, result, c.words))

\* C6 witness: cat and dog, exactly 1000 ms apart, form a phrase, while cot,
\* found far from both, is in no phrase and has its own entry
C6_Witness ==
    /\ pc = "search_returned"
    /\ result.concatenated_words = <<W_cat \o <<32>> \o W_dog>>
    /\ DictHas(result.timestamps, W_cot)
    /\ Let(WordTimes, LAMBDA wt :
           /\ DictHas(wt, W_cat) /\ DictHas(wt, W_dog)
           /\ AbsDiffLE(Earliest(wt, W_cat), Earliest(wt, W_dog), 1000)
           /\ ~AbsDiffLE(Earliest(wt, W_cat), Earliest(wt, W_dog), 999))

----------------------------------------------------------------------------
(* Properties of the window loop of process (Spec) *)

InLoop == pc \in {"loop", "done"}

IsPhraseKey(key) == 32 \in Range(key)

\* what the search returns for each window processed so far, as process
\* calls it
WindowResults ==
    [k \in 1..Len(chunk_transcriptions) |->
        search_word_in_transcript(chunk_transcriptions[k].transcription, search_words,
                                  chunk_start_time_of(k - 1), 15000, fuzzy_match, cutoff)]

\* the word_times dict of each window processed so far
WindowWordTimes ==
    [k \in 1..Len(chunk_transcriptions) |->
        find_occurrences(chunk_transcriptions[k].transcription, search_words,
                         chunk_start_time_of(k - 1), 15000, fuzzy_match, cutoff).word_times]

TextOf(asr) == IF asr.kind = "text" THEN asr.text ELSE <<>>

RECURSIVE Replay(_, _, _)
\* the map after the windows k.. of texts have been processed from ts
Replay(ts, texts, k) ==
    IF k > Len(texts) THEN ts
    ELSE Let(process_window(ts, k - 1, texts[k], search_words, fuzzy_match, cutoff),
             LAMBDA ts1 : Replay(ts1, texts, k + 1))

\* C4: whatever windows fail to transcribe, the run is never aborted, every
\* window is transcribed, searched and accumulated, and at the end all of
\* them are; a failed window leaves an empty transcript, for which the
\* search returns nothing; and the map is the one of the run in which the
\* failed windows had answered with an empty text.
C4_FailedWindowIsEmptyWindow ==
    /\ pc # "aborted"
    /\ InLoop =>
        /\ Len(chunk_transcriptions) = Len(asr_results)
        /\ pc = "done" => Len(chunk_transcriptions) = Len(chunks)
        /\ \A k \in 1..Len(asr_results) :
               asr_results[k].kind # "text" =>
                   /\ chunk_transcriptions[k].transcription = <<>>
                   /\ search_word_in_transcript(<<>>, search_words, chunk_start_time_of(k - 1),
                                                15000, fuzzy_match, cutoff)
                        = [timestamps |-> EmptyDict, concatenated_words |-> <<>>,
                           concatenated_times |-> <<>>]
        /\ timestamps = Replay(EmptyDict, [k \in 1..Len(asr_results) |-> TextOf(asr_results[k])], 1)

\* C4 witness: the run is over, its first window failed on a request error,
\* and a later window still gave cat its time
C4_Witness ==
    /\ pc = "done"
    /\ Len(asr_results) >= 2
    /\ asr_results[1].kind = "RequestError"
    /\ asr_results[2].kind = "text"
    /\ DictHas(timestamps, W_cat)

C7_Holds(k, wt, toks, terms) ==
    LET n == Len(toks)
        st == chunks[k].start
        len == chunks[k].end - chunks[k].start
        occs == Occs(wt, n)
        idx == [o \in occs |-> IndexOfTime(wt[o[1]].v[o[2]], n, st, len)]
    IN  /\ chunk_start_time_of(k - 1) = st
        /\ \A o \in occs :
               /\ idx[o] \in 0..(n - 1)
               /\ match_key(toks[idx[o] + 1], terms, fuzzy_match, cutoff) = <<wt[o[1]].k>>
               /\ RatLE(Rat(st, 1), wt[o[1]].v[o[2]])
               /\ RatLT(wt[o[1]].v[o[2]], Rat(st + len, 1))
        /\ \A o1, o2 \in occs :
               idx[o1] <= idx[o2] => RatLE(wt[o1[1]].v[o1[2]], wt[o2[1]].v[o2[2]])

\* C7: in window k an occurrence found at token i of n has the estimated
\* time start + (i/n) * length, start and length being those of the k-th
\* window cut by split_audio (chunk_start_time equals that start); the
\* estimate does not decrease with i and lies in [start, start + length).
C7_EstimatedTime ==
    InLoop =>
        Let(WindowWordTimes, LAMBDA wts :
            \A k \in 1..Len(wts) :
                Let(split(lower(chunk_transcriptions[k].transcription)), LAMBDA toks :
                    C7_Holds(k, wts[k], toks,
                             [j \in 1..Len(search_words) |-> lower(search_words[j])])))

\* C7 witness: the second window read "the Cat cats"; cat is found at token
\* 1 of 3, at 12000 + 15000/3 ms
C7_Witness ==
    /\ InLoop
    /\ Len(chunk_transcriptions) >= 2
    /\ chunk_transcriptions[1].transcription = <<>>
    /\ chunk_transcriptions[2].transcription = Join(<<W_the, W_Cat, W_cats>>)
    /\ DictHas(timestamps, W_cat)
    /\ DictGet(timestamps, W_cat)[1] = <<48, 48, 58, 48, 48, 58, 49, 55>>

\* the display times window k contributes to word w, in token order
WindowTimesOf(w, k) ==
    Let([toks |-> split(lower(chunk_transcriptions[k].transcription)),
         terms |-> [j \in 1..Len(search_words) |-> lower(search_words[j])]],
        LAMBDA c :
            Let(SelectSeq([i \in 1..Len(c.toks) |-> i],
                          LAMBDA i : match_key(c.toks[i], c.terms, fuzzy_match, cutoff) = <<w>>),
                LAMBDA hits :
                    [h \in 1..Len(hits) |->
                        milliseconds_to_hms(word_time_at(hits[h] - 1, Len(c.toks),
                                                         chunk_start_time_of(k - 1), 15000))]))

RECURSIVE TimesOf(_, _)
\* the display times windows 1..k contribute to word w, in discovery order
TimesOf(w, k) == IF k = 0 THEN <<>> ELSE TimesOf(w, k - 1) \o WindowTimesOf(w, k)

IsPrefix(a, b) == Len(a) <= Len(b) /\ SubSeq(b, 1, Len(a)) = a

\* the map holds, under each search term, the display times of the tokens
\* matched to it so far, in window order and then token order, and holds
\* no entry for a term never matched
C9_DiscoveryOrder ==
    InLoop =>
        \A j \in 1..Len(search_words) :
            Let([w |-> lower(search_words[j]),
                 times |-> TimesOf(lower(search_words[j]), Len(chunk_transcriptions))],
                LAMBDA c :
                    IF c.times = <<>> THEN ~DictHas(timestamps, c.w)
                    ELSE DictHas(timestamps, c.w) /\ DictGet(timestamps, c.w) = c.times)

\* C9: the map is append-only over the windows: a step keeps every key and
\* only extends its list; and after every window the list of a search term
\* is the display times of the tokens matched to it so far, in discovery
\* order, as many as those tokens.
C9_AppendOnly ==
    /\ []C9_DiscoveryOrder
    /\ [][\A k \in 1..Len(timestamps) :
              /\ DictHas(timestamps', timestamps[k].k)
              /\ IsPrefix(timestamps[k].v, DictGet(timestamps', timestamps[k].k))]_vars

\* C9 witness: cat was found in the first window and again in the second
C9_Witness ==
    /\ InLoop
    /\ Len(chunk_transcriptions) >= 2
    /\ DictHas(timestamps, W_cat)
    /\ DictGet(timestamps, W_cat) =
           <<<<48, 48, 58, 48, 48, 58, 48, 48>>, <<48, 48, 58, 48, 48, 58, 49, 50>>>>

====
